---- MODULE Spec2Model ----
(***************************************************************************)
(* Model of RadarTLL_nmeaout_Boko.py: the poll loop of main(), the         *)
(* position source adapter get_data / get_global_position, the sentence    *)
(* builder gen_tll and the two sinks (UDP socket, serial line).            *)
(*                                                                         *)
(* Text is a sequence of one-character strings.  A coordinate is an        *)
(* integer number of grid steps: Sub steps make 1/1000 of a minute, so     *)
(* the decimal-degree value of v is v / DegUnits and the arithmetic of     *)
(* gen_tll is carried out exactly on that grid.                            *)
(***************************************************************************)
EXTENDS Integers, Sequences, FiniteSets, TLC

VARIABLES
    pc,          \* position of the process in main() (or in a direct call of gen_tll)
    py,          \* major version of the interpreter running the script (2 or 3)
    args,        \* parsed command line: [ip, serial]
    ser,         \* serial handle: "None" or "open"
    sock,        \* UDP socket: "None" or "open"
    pos,         \* value returned by the last get_global_position
    resp,        \* what the position source answered to the last requests.get
    fetchLog,    \* per fetch attempt, how it ended: see fetch_class
    tllArgs,     \* arguments of the last call of gen_tll
    sentence,    \* value returned by the last call of gen_tll
    udpTry,      \* this cycle's sock.sendto: "no", "ok", "raised"
    serTry,      \* this cycle's ser.write: "no", "ok", "raised"
    udpOut,      \* [n, last]: datagrams accepted by the socket, last payload
    serOut,      \* [n, last]: writes accepted by the serial line, last payload
    sinceFetch,  \* time.sleep(1) calls since the last fetch attempt
    gap,         \* time.sleep(1) calls between the last two fetch attempts (-1: none yet)
    spc,         \* position of the process in StabOff.py
    link,        \* MAVLink messages on their way from the vehicle to the script, in order
    uplink,      \* MAVLink messages on their way from the script to the vehicle, in order
    vparams,     \* the vehicle's parameter table
    slog,        \* what StabOff.py has sent and accepted so far, in order
    env          \* what the vehicle and the link have done so far: [hb, other, loss]

mainVars == <<pc, py, args, ser, sock, pos, resp, fetchLog, tllArgs, sentence,
              udpTry, serTry, udpOut, serOut, sinceFetch, gap>>

stabVars == <<spc, link, uplink, vparams, slog, env>>

vars == <<mainVars, stabVars>>

-----------------------------------------------------------------------------
(* Bounds of the model *)

\* grid steps per 1/1000 of a minute
Sub == 4
\* width, in grid steps, of the sampled windows at both ends of a 1/1000-minute range
Window == 3
\* fetch attempts of the poll loop that are explored
MaxCycles == 3

MinUnits == 1000 * Sub
DegUnits == 60 * MinUnits

-----------------------------------------------------------------------------
(* Text *)

\* the characters with codes 32..95, in code order
AsciiRow ==
    <<" ", "!", "\"", "#", "$", "%", "&", "'", "(", ")", "*", "+", ",", "-", ".", "/",
      "0", "1", "2", "3", "4", "5", "6", "7", "8", "9", ":", ";", "<", "=", ">", "?",
      "@", "A", "B", "C", "D", "E", "F", "G", "H", "I", "J", "K", "L", "M", "N", "O",
      "P", "Q", "R", "S", "T", "U", "V", "W", "X", "Y", "Z", "[", "\\", "]", "^", "_">>

ord(c) ==
    IF c = "\n" THEN 10
    ELSE 31 + (CHOOSE i \in 1..Len(AsciiRow) : AsciiRow[i] = c)

RECURSIVE xor(_, _)
\* a ^ b on non-negative integers
xor(a, b) ==
    IF a = 0 THEN b
    ELSE IF b = 0 THEN a
    ELSE ((a + b) % 2) + 2 * xor(a \div 2, b \div 2)

\* a & 0xFF
and_0xFF(a) == a % 256

RECURSIVE DecDigits(_)
\* the decimal digits of n >= 0, most significant first
DecDigits(n) ==
    IF n < 10 THEN <<AsciiRow[17 + n]>>
    ELSE DecDigits(n \div 10) \o <<AsciiRow[17 + (n % 10)]>>

RECURSIVE HexDigits(_)
\* the uppercase hexadecimal digits of n >= 0
HexDigits(n) ==
    LET d(k) == IF k < 10 THEN AsciiRow[17 + k] ELSE AsciiRow[34 + (k - 10)]
    IN  IF n < 16 THEN <<d(n)>> ELSE HexDigits(n \div 16) \o <<d(n % 16)>>

RECURSIVE Zeros(_)
Zeros(k) == IF k <= 0 THEN <<>> ELSE <<"0">> \o Zeros(k - 1)

\* '%0<w>d' % n: at least w characters, zero padded, the sign counted in the width
FmtD(n, w) ==
    IF n >= 0
    THEN Zeros(w - Len(DecDigits(n))) \o DecDigits(n)
    ELSE <<"-">> \o Zeros(w - 1 - Len(DecDigits(-n))) \o DecDigits(-n)

\* '%0.2X' % n: at least 2 uppercase hexadecimal digits
FmtX2(n) == Zeros(2 - Len(HexDigits(n))) \o HexDigits(n)

-----------------------------------------------------------------------------
(* Arithmetic of gen_tll on the grid *)

abs(x) == IF x < 0 THEN -x ELSE x

\* floor(x) of a value given in steps of `unit`, in the same steps
floor(x, unit) == (x \div unit) * unit

\* the integer that '%d' renders for a float: the value truncated toward zero
trunc(x, unit) == IF x >= 0 THEN x \div unit ELSE -((-x) \div unit)

\* round(n / d): half away from zero in Python 2, half to even in Python 3
round(n, d, ver) ==
    LET q == n \div d
        r == n % d
    IN  IF 2 * r < d THEN q
        ELSE IF 2 * r > d THEN q + 1
        ELSE IF ver = 2 THEN (IF n >= 0 THEN q + 1 ELSE q)
        ELSE IF q % 2 = 0 THEN q ELSE q + 1

-----------------------------------------------------------------------------
(* gen_tll *)

\* '%02d%02d%02d%s' % (tm_hour, tm_min, tm_sec, '.%02d' if 0 != 0 else '')
hhmmssss(time_t) ==
    FmtD(time_t.tm_hour, 2) \o FmtD(time_t.tm_min, 2) \o FmtD(time_t.tm_sec, 2) \o <<>>

lat_abs(lat) == abs(lat)

lat_deg(lat) == lat_abs(lat)

\* (lat_abs - floor(lat_deg)) * 60: minutes, MinUnits grid steps each
lat_min(lat) == lat_abs(lat) - floor(lat_deg(lat), DegUnits)

\* round((lat_min - floor(lat_min)) * 1000)
lat_sec(lat) == round(lat_min(lat) - floor(lat_min(lat), MinUnits), Sub, py)

\* the comparison of lat_pole_prime with <= for <
lat_pole_prime_le(lat) == IF lat <= 0 THEN "S" ELSE "N"

lat_pole_prime(lat) == IF lat < 0 THEN "S" ELSE "N"

\* '%02d%02d.%03d' % (lat_deg, lat_min, lat_sec)
lat_format(lat) ==
    FmtD(trunc(lat_deg(lat), DegUnits), 2) \o FmtD(trunc(lat_min(lat), MinUnits), 2)
        \o <<".">> \o FmtD(lat_sec(lat), 3)

lng_abs(lng) == abs(lng)

lng_deg(lng) == lng_abs(lng)

lng_min(lng) == lng_abs(lng) - floor(lng_deg(lng), DegUnits)

lng_sec(lng) == round(lng_min(lng) - floor(lng_min(lng), MinUnits), Sub, py)

lng_pole_prime(lng) == IF lng < 0 THEN "W" ELSE "E"

\* '%03d%02d.%03d' % (lng_deg, lng_min, lng_sec)
lng_format(lng) ==
    FmtD(trunc(lng_deg(lng), DegUnits), 3) \o FmtD(trunc(lng_min(lng), MinUnits), 2)
        \o <<".">> \o FmtD(lng_sec(lng), 3)

\* the body with the caller's name in place of the literal 'ROV'
result_with_name(lat, lng, ROV, time_t, T) ==
    <<"R", "A", "T", "L", "L", ",", "0", "1", ",">>
        \o lat_format(lat) \o <<",", lat_pole_prime(lat), ",">>
        \o lng_format(lng) \o <<",", lng_pole_prime(lng), ",">>
        \o ROV \o <<",">> \o hhmmssss(time_t) \o <<",">> \o T

\* 'RATLL,01,%s,%s,%s,%s,%s,%s,%s' % (..., 'ROV', hhmmssss, T)
result(lat, lng, ROV, time_t, T) ==
    <<"R", "A", "T", "L", "L", ",", "0", "1", ",">>
        \o lat_format(lat) \o <<",", lat_pole_prime(lat), ",">>
        \o lng_format(lng) \o <<",", lng_pole_prime(lng), ",">>
        \o <<"R", "O", "V">> \o <<",">> \o hhmmssss(time_t) \o <<",">> \o T

RECURSIVE crc_loop(_, _, _)
\* crc = 0; for c in result: crc = crc ^ ord(c) -- over the characters i..j of
\* text.  ^ is associative and 0 its unit, so the loop's left-to-right value is
\* the ^ of its values over the two halves; each half's value is bound once.
crc_loop(text, i, j) ==
    IF i > j THEN 0
    ELSE IF i = j THEN ord(text[i])
    ELSE CHOOSE v \in {xor(l, r) : l \in {crc_loop(text, i, (i + j) \div 2)},
                                   r \in {crc_loop(text, ((i + j) \div 2) + 1, j)}} : TRUE

\* the checksum loop run over the framed text, '$' included
crc_from_dollar(text) == and_0xFF(crc_loop(<<"$">> \o text, 1, Len(text) + 1))

crc(text) == and_0xFF(crc_loop(text, 1, Len(text)))

\* '$%s*%0.2X' % (result, crc)
gen_tll(lat, lng, ROV, time_t, T) ==
    LET body == result(lat, lng, ROV, time_t, T)
    IN  <<"$">> \o body \o <<"*">> \o FmtX2(crc(body))

-----------------------------------------------------------------------------
(* Inputs *)

\* requests.codes.ok
codes_ok == 200

\* a value on the grid: d degrees, m minutes, t grid steps
At(d, m, t) == d * DegUnits + m * MinUnits + t

\* time.gmtime() values
Times ==
    { [tm_hour |-> 1, tm_min |-> 52, tm_sec |-> 0],
      [tm_hour |-> 23, tm_min |-> 59, tm_sec |-> 59] }

\* the parsed JSON bodies: r.json() of a 200 answer
None == [shape |-> "None", lat |-> 0, lon |-> 0]

Position(lat, lon) == [shape |-> "position", lat |-> lat, lon |-> lon]

\* positions the source reports to the poll loop
PosSamples ==
    { Position(At(56, 3, 370 * Sub + 1), At(18, 59, 976 * Sub)),
      Position(-At(3, 59, MinUnits - 1), -At(0, 0, 2)) }

\* null, {}, an object without lat/lon, an object whose lat is a string, a position
JsonBodies ==
    { None,
      [shape |-> "empty", lat |-> 0, lon |-> 0],
      [shape |-> "nolat", lat |-> 0, lon |-> 0],
      [shape |-> "strlat", lat |-> 0, lon |-> 0] } \cup PosSamples

NotJson == [shape |-> "notjson", lat |-> 0, lon |-> 0]

NoResponse == [exc |-> FALSE, status_code |-> 0, body |-> None]

\* what requests.get(url) can do: raise a RequestException, or return a response
Responses ==
    { [exc |-> TRUE, status_code |-> 0, body |-> None],
      [exc |-> FALSE, status_code |-> 500, body |-> NotJson] }
    \cup { [exc |-> FALSE, status_code |-> codes_ok, body |-> b] :
             b \in JsonBodies \cup {NotJson} }

-----------------------------------------------------------------------------
(* Position source adapter *)

\* get_data(url), given the answer of requests.get: the value returned, or raised
get_data(r) ==
    IF r.exc THEN [raised |-> FALSE, value |-> None]
    ELSE IF r.status_code # codes_ok THEN [raised |-> FALSE, value |-> None]
    ELSE IF r.body = NotJson THEN [raised |-> TRUE, value |-> None]
    ELSE [raised |-> FALSE, value |-> r.body]

get_global_position(r) == get_data(r)

\* truth value of `pos` in `if pos:`
truthy(p) == p.shape \notin {"None", "empty"}

\* pos["lat"], pos["lon"] exist and abs() accepts them
numeric(p) == p.shape = "position"

-----------------------------------------------------------------------------
(* main *)

\* StabOff.py is a separate program: it is not running
StabNotRun ==
    /\ spc = [at |-> "not_run", k |-> 0]
    /\ link = <<>>
    /\ uplink = <<>>
    /\ vparams = <<>>
    /\ slog = <<>>
    /\ env = [hb |-> 0, other |-> 0, loss |-> 0]

NoCall == [lat |-> 0, lng |-> 0, ROV |-> <<>>, time_t |-> [tm_hour |-> 0, tm_min |-> 0, tm_sec |-> 0], T |-> <<>>]

NoOutput == [n |-> 0, last |-> <<>>]

Init ==
    /\ pc = "parse_args"
    /\ py \in {2, 3}
    /\ args \in [ip : {"", "127.0.0.1"}, serial : {"", "/dev/ttyUSB0", "/dev/nonexistent"}]
    /\ ser = "None"
    /\ sock = "None"
    /\ pos = None
    /\ resp = NoResponse
    /\ fetchLog = <<>>
    /\ tllArgs = NoCall
    /\ sentence = <<>>
    /\ udpTry = "no"
    /\ serTry = "no"
    /\ udpOut = NoOutput
    /\ serOut = NoOutput
    /\ sinceFetch = 0
    /\ gap = -1
    /\ StabNotRun

\* if not (args.ip or args.serial): ... sys.exit(1)
ParseArgs ==
    /\ pc = "parse_args"
    /\ pc' = IF args.ip = "" /\ args.serial = "" THEN "exited" ELSE "open_serial"
    /\ UNCHANGED <<py, args, ser, sock, pos, resp, fetchLog, tllArgs, sentence,
                   udpTry, serTry, udpOut, serOut, sinceFetch, gap>>
    /\ UNCHANGED stabVars

\* serial.Serial(port, baud) opens the device or raises SerialException
device_opens(port) == port # "/dev/nonexistent"

\* ser = None; if args.serial: ser = serial.Serial(args.serial, args.baud)
OpenSerial ==
    /\ pc = "open_serial"
    /\ IF args.serial = "" THEN ser' = "None" /\ pc' = "open_socket"
       ELSE IF device_opens(args.serial) THEN ser' = "open" /\ pc' = "open_socket"
       ELSE ser' = ser /\ pc' = "crashed"
    /\ UNCHANGED <<py, args, sock, pos, resp, fetchLog, tllArgs, sentence,
                   udpTry, serTry, udpOut, serOut, sinceFetch, gap>>
    /\ UNCHANGED stabVars

\* sock = None; if args.ip: sock = socket.socket(AF_INET, SOCK_DGRAM)
OpenSocket ==
    /\ pc = "open_socket"
    /\ sock' = IF args.ip = "" THEN "None" ELSE "open"
    /\ pc' = "fetch"
    /\ UNCHANGED <<py, args, ser, pos, resp, fetchLog, tllArgs, sentence,
                   udpTry, serTry, udpOut, serOut, sinceFetch, gap>>
    /\ UNCHANGED stabVars

\* the loop without its `if pos:` test
after_fetch_unchecked(got) == IF got.raised THEN "crashed" ELSE "gen_tll"

\* where the loop goes after `pos = get_global_position(args.url); if pos:`
after_fetch(got) ==
    IF got.raised THEN "crashed"
    ELSE IF truthy(got.value) THEN "gen_tll"
    ELSE "fetch"

\* how a fetch attempt ended: the request raised and get_data returned None
\* ("transport"), the status was not ok and get_data returned None ("protocol"),
\* r.json() raised out of get_data ("raise"), or a parsed body came back that
\* `if pos:` finds falsy ("falsy") or truthy ("pos")
fetch_class(r, got) ==
    IF r.exc THEN "transport"
    ELSE IF r.status_code # codes_ok THEN "protocol"
    ELSE IF got.raised THEN "raise"
    ELSE IF truthy(got.value) THEN "pos"
    ELSE "falsy"

\* while True: get_global_position(args.url) calls requests.get(url), which is
\* given no timeout and blocks until the source answers or the transport fails
Request ==
    /\ pc = "fetch"
    /\ Len(fetchLog) < MaxCycles
    /\ pc' = "requests_get"
    /\ UNCHANGED <<py, args, ser, sock, pos, resp, fetchLog, tllArgs, sentence,
                   udpTry, serTry, udpOut, serOut, sinceFetch, gap>>
    /\ UNCHANGED stabVars

\* requests.get ends; pos = the value get_data returns; if pos: ...
Fetch ==
    /\ pc = "requests_get"
    /\ \E r \in Responses :
         LET got == get_global_position(r)
         IN  /\ resp' = r
             /\ pos' = IF got.raised THEN pos ELSE got.value
             /\ pc' = after_fetch(got)
             /\ fetchLog' = Append(fetchLog, fetch_class(r, got))
    /\ udpTry' = "no"
    /\ serTry' = "no"
    /\ gap' = IF fetchLog = <<>> THEN -1 ELSE sinceFetch
    /\ sinceFetch' = 0
    /\ UNCHANGED <<py, args, ser, sock, tllArgs, sentence, udpOut, serOut>>
    /\ UNCHANGED stabVars

\* sentence = gen_tll(pos["lat"], pos["lon"], 'ROV', time.gmtime(), 'T')
GenTll ==
    /\ pc = "gen_tll"
    /\ IF numeric(pos)
       THEN \E t \in Times :
              /\ tllArgs' = [lat |-> pos.lat, lng |-> pos.lon, ROV |-> <<"R", "O", "V">>,
                             time_t |-> t, T |-> <<"T">>]
              /\ sentence' = gen_tll(pos.lat, pos.lon, <<"R", "O", "V">>, t, <<"T">>)
              /\ pc' = "send_udp"
       ELSE /\ pc' = "crashed"
            /\ UNCHANGED <<tllArgs, sentence>>
    /\ UNCHANGED <<py, args, ser, sock, pos, resp, fetchLog,
                   udpTry, serTry, udpOut, serOut, sinceFetch, gap>>
    /\ UNCHANGED stabVars

\* a sink accepts a text payload only under Python 2 (a str is not bytes-like in 3);
\* it may raise in either (OSError, SerialException)
write_results == IF py = 2 THEN {"ok", "raised"} ELSE {"raised"}

\* where the loop goes after a sink call that ended `res`
after_write(res, next) == IF res = "raised" THEN "crashed" ELSE next

\* if sock: send_udp(sock, args.ip, args.port, sentence)
SendUdp ==
    /\ pc = "send_udp"
    /\ IF sock # "None"
       THEN \E res \in write_results :
              /\ udpTry' = res
              /\ udpOut' = IF res = "ok" THEN [n |-> udpOut.n + 1, last |-> sentence]
                           ELSE udpOut
              /\ pc' = after_write(res, "ser_write")
       ELSE /\ pc' = "ser_write"
            /\ UNCHANGED <<udpTry, udpOut>>
    /\ UNCHANGED <<py, args, ser, sock, pos, resp, fetchLog, tllArgs, sentence,
                   serTry, serOut, sinceFetch, gap>>
    /\ UNCHANGED stabVars

\* if ser: ser.write(sentence + "\n")
SerWrite ==
    /\ pc = "ser_write"
    /\ IF ser # "None"
       THEN \E res \in write_results :
              /\ serTry' = res
              /\ serOut' = IF res = "ok"
                           THEN [n |-> serOut.n + 1, last |-> sentence \o <<"\n">>]
                           ELSE serOut
              /\ pc' = after_write(res, "sleep")
       ELSE /\ pc' = "sleep"
            /\ UNCHANGED <<serTry, serOut>>
    /\ UNCHANGED <<py, args, ser, sock, pos, resp, fetchLog, tllArgs, sentence,
                   udpTry, udpOut, sinceFetch, gap>>
    /\ UNCHANGED stabVars

\* time.sleep(1), the last statement of the `if pos:` block
Sleep ==
    /\ pc = "sleep"
    /\ sinceFetch' = sinceFetch + 1
    /\ pc' = "fetch"
    /\ UNCHANGED <<py, args, ser, sock, pos, resp, fetchLog, tllArgs, sentence,
                   udpTry, serTry, udpOut, serOut, gap>>
    /\ UNCHANGED stabVars

Next ==
    \/ ParseArgs
    \/ OpenSerial
    \/ OpenSocket
    \/ Request
    \/ Fetch
    \/ GenTll
    \/ SendUdp
    \/ SerWrite
    \/ Sleep

Spec == Init /\ [][Next]_vars

\* the steps main() takes by itself; Fetch needs the source or the network to act
ProgramStep ==
    ParseArgs \/ OpenSerial \/ OpenSocket \/ Request \/ GenTll \/ SendUdp \/ SerWrite \/ Sleep

\* the interpreter keeps running the process; nothing obliges the source to answer
FairSpec == Init /\ [][Next]_vars /\ WF_vars(ProgramStep)

-----------------------------------------------------------------------------
(* gen_tll called directly, over a sample of its domain *)

\* offsets inside one minute: both ends of a 1/1000-minute range, and 370.25/1000
ThouSamples == (0..Window) \cup {370 * Sub + 1} \cup ((MinUnits - Window)..(MinUnits - 1))

LatInputs ==
    { sg * At(d, m, t) : sg \in {-1, 1}, d \in {0, 3, 56, 89}, m \in {0, 59}, t \in ThouSamples }
    \cup {At(90, 0, 0), -At(90, 0, 0)}

LngInputs ==
    { sg * At(d, m, t) : sg \in {-1, 1}, d \in {0, 18, 179}, m \in {0, 59}, t \in ThouSamples }
    \cup {At(180, 0, 0), -At(180, 0, 0)}

LatFew == {At(56, 3, 370 * Sub + 1), -At(3, 59, MinUnits - 1), 0}

LngFew == {At(18, 59, 976 * Sub), -At(179, 59, MinUnits - 1), 0}

TllCalls ==
    [lat : LatInputs, lng : LngFew, ROV : {<<"R", "O", "V">>, <<"X">>},
     time_t : Times, T : {<<"T">>, <<"L">>}]
    \cup
    [lat : LatFew, lng : LngInputs \cup LngFew, ROV : {<<"R", "O", "V">>, <<"X">>},
     time_t : Times, T : {<<"T">>, <<"L">>}]

InitTLL ==
    /\ pc = "call"
    /\ py \in {2, 3}
    /\ args = [ip |-> "", serial |-> ""]
    /\ ser = "None"
    /\ sock = "None"
    /\ pos = None
    /\ resp = NoResponse
    /\ fetchLog = <<>>
    /\ tllArgs = NoCall
    /\ sentence = <<>>
    /\ udpTry = "no"
    /\ serTry = "no"
    /\ udpOut = NoOutput
    /\ serOut = NoOutput
    /\ sinceFetch = 0
    /\ gap = -1
    /\ StabNotRun

\* one call gen_tll(lat, lng, ROV, time_t, T)
CallGenTll ==
    /\ pc = "call"
    /\ \E a \in TllCalls :
         /\ tllArgs' = a
         /\ sentence' = gen_tll(a.lat, a.lng, a.ROV, a.time_t, a.T)
    /\ pc' = "returned"
    /\ UNCHANGED <<py, args, ser, sock, pos, resp, fetchLog,
                   udpTry, serTry, udpOut, serOut, sinceFetch, gap>>
    /\ UNCHANGED stabVars

NextTLL == CallGenTll

SpecTLL == InitTLL /\ [][NextTLL]_vars

-----------------------------------------------------------------------------
(* Reading a sentence back, as a receiver does *)

\* position of the first c in text, 0 when there is none
IndexOf(text, c) ==
    IF \E i \in 1..Len(text) : text[i] = c
    THEN CHOOSE i \in 1..Len(text) : text[i] = c /\ \A j \in 1..(i - 1) : text[j] # c
    ELSE 0

\* the text between '$' and '*'
BodyOf(s) == SubSeq(s, 2, IndexOf(s, "*") - 1)

\* the text after '*'
TrailerOf(s) == SubSeq(s, IndexOf(s, "*") + 1, Len(s))

RECURSIVE Split(_)
\* the comma-separated fields of text
Split(text) ==
    LET i == IndexOf(text, ",")
    IN  IF i = 0 THEN <<text>>
        ELSE <<SubSeq(text, 1, i - 1)>> \o Split(SubSeq(text, i + 1, Len(text)))

FieldsOf(s) == Split(BodyOf(s))

DecimalDigit == {"0", "1", "2", "3", "4", "5", "6", "7", "8", "9"}

UpperHexDigit == DecimalDigit \cup {"A", "B", "C", "D", "E", "F"}

AllIn(text, S) == \A i \in 1..Len(text) : text[i] \in S

DigitVal(c) == ord(c) - 48

HexVal(c) == IF c \in DecimalDigit THEN ord(c) - 48 ELSE ord(c) - 55

RECURSIVE NumVal(_)
\* the number a digit string denotes
NumVal(text) ==
    IF text = <<>> THEN 0
    ELSE 10 * NumVal(SubSeq(text, 1, Len(text) - 1)) + DigitVal(text[Len(text)])

RECURSIVE Pow10(_)
Pow10(k) == IF k = 0 THEN 1 ELSE 10 * Pow10(k - 1)

RECURSIVE OnesAt(_, _)
\* how many characters of text have bit k of their code set
OnesAt(text, k) ==
    IF text = <<>> THEN 0
    ELSE ((ord(Head(text)) \div (2 ^ k)) % 2) + OnesAt(Tail(text), k)

RECURSIVE ParitySum(_, _)
\* the exclusive-or of the 8-bit codes of text, bit by bit from bit k up
ParitySum(text, k) ==
    IF k > 7 THEN 0
    ELSE (2 ^ k) * (OnesAt(text, k) % 2) + ParitySum(text, k + 1)

\* a coordinate field read as <int part>.<fraction>: the last two digits of the
\* integer part are minutes, those before are degrees; [whole, frac, scale] with
\* the field worth whole + frac / scale minutes
ParseField(field) ==
    LET dot == IndexOf(field, ".")
        ip == SubSeq(field, 1, dot - 1)
        fp == SubSeq(field, dot + 1, Len(field))
    IN  [whole |-> 60 * NumVal(SubSeq(ip, 1, Len(ip) - 2))
                   + NumVal(SubSeq(ip, Len(ip) - 1, Len(ip))),
         frac |-> NumVal(fp),
         scale |-> Pow10(Len(fp))]

\* the field is within 1/1000 of a minute of |v|: the difference is taken in
\* whole minutes first, then in steps of 1 / (scale * MinUnits) of a minute
FieldNear(field, v) ==
    LET p == ParseField(field)
        dm == p.whole - (abs(v) \div MinUnits)
        d == dm * p.scale * MinUnits + p.frac * MinUnits - (abs(v) % MinUnits) * p.scale
    IN  abs(dm) <= 1 /\ abs(d) <= p.scale * Sub

\* the sign a hemisphere letter denotes agrees with v (either sign for 0)
SignAgrees(letter, v) ==
    /\ letter \in {<<"N">>, <<"E">>} => v >= 0
    /\ letter \in {<<"S">>, <<"W">>} => v <= 0

\* |v| is so close below a whole minute that its minutes round to a whole minute
\* under any rounding of halves
RoundsToWholeMinute(v) == 2 * (MinUnits - (abs(v) % MinUnits)) < Sub

\* the field of |v| with w degree digits after the carry: the next whole minute
CarriedField(v, w) ==
    LET mins == (abs(v) \div MinUnits) + 1
    IN  FmtD(mins \div 60, w) \o FmtD(mins % 60, 2) \o <<".", "0", "0", "0">>

\* w degree digits, 2 minute digits below 60, a point, 3 fraction digits
FixedWidth(field, w) ==
    /\ Len(field) = w + 6
    /\ field[w + 3] = "."
    /\ AllIn(SubSeq(field, 1, w + 2), DecimalDigit)
    /\ AllIn(SubSeq(field, w + 4, w + 6), DecimalDigit)
    /\ NumVal(SubSeq(field, w + 1, w + 2)) < 60

-----------------------------------------------------------------------------
(* Claims *)

\* C1: between any two consecutive fetch attempts of the poll loop there is
\* exactly one time.sleep(1), after a fetch that returned a position and after
\* one that returned Unavailable alike.
C1_OneSleepBetweenFetches == Len(fetchLog) >= 2 => gap = 1

Unavailable == {"transport", "protocol", "falsy"}

TransportFailure == resp.exc
ProtocolFailure == ~resp.exc /\ resp.status_code # codes_ok
DecodeFailure == ~resp.exc /\ resp.status_code = codes_ok /\ resp.body.shape # "position"

\* C3: a transport failure, a protocol failure and a decode failure (a body that
\* is not JSON, or JSON without numeric lat and lon) all reach the loop as
\* Unavailable: no sentence in that cycle and the loop at its next fetch.
C3_FailuresAreUnavailable ==
    (fetchLog # <<>> /\ (TransportFailure \/ ProtocolFailure \/ DecodeFailure))
        => /\ ~truthy(pos)
           /\ pc = "fetch"
           /\ udpTry = "no" /\ serTry = "no"

\* C4: with both sinks configured, a failed write on one sink neither prevents
\* the write on the other nor ends the loop.
C4_SinkIsolation ==
    (sock # "None" /\ ser # "None")
        => /\ (udpTry = "raised" /\ pc \notin {"send_udp", "ser_write"}) => serTry # "no"
           /\ (udpTry = "raised" \/ serTry = "raised") => pc # "crashed"

\* C5: with a valid UDP sink and a serial device that cannot be opened the loop
\* runs, and a cycle that got a position sends its sentence over UDP.
C5_BrokenSerialKeepsUdp ==
    (args.ip # "" /\ ~device_opens(args.serial))
        => /\ pc # "crashed"
           /\ (pc = "sleep" => udpTry = "ok")

Returned == pc = "returned"

LatField == FieldsOf(sentence)[3]
LatLetter == FieldsOf(sentence)[4]
LngField == FieldsOf(sentence)[5]
LngLetter == FieldsOf(sentence)[6]

\* C6: when the minutes round up to a whole minute the field carries: the
\* fraction is 000, the minutes are incremented, and 60 minutes become one more
\* degree and 00 minutes.
C6_RoundingCarries ==
    Returned
        => /\ RoundsToWholeMinute(tllArgs.lat) => LatField = CarriedField(tllArgs.lat, 2)
           /\ RoundsToWholeMinute(tllArgs.lng) => LngField = CarriedField(tllArgs.lng, 3)

\* C7: for latitude in [-90, 90] and longitude in [-180, 180] the fields are
\* ddmm.mmm and dddmm.mmm exactly, with minutes below 60.
C7_FixedWidthFields ==
    Returned => FixedWidth(LatField, 2) /\ FixedWidth(LngField, 3)

\* C8: a sentence is '$' + body + '*' + HH, the body holds no '$' and no '*',
\* and HH is two uppercase hexadecimal digits whose value is the exclusive-or of
\* the codes of the characters of the body.
C8_ChecksumRoundTrip ==
    Returned
        => /\ sentence[1] = "$"
           /\ IndexOf(sentence, "*") > 2
           /\ AllIn(BodyOf(sentence), {AsciiRow[i] : i \in 1..Len(AsciiRow)} \ {"$", "*"})
           /\ Len(TrailerOf(sentence)) = 2
           /\ AllIn(TrailerOf(sentence), UpperHexDigit)
           /\ 16 * HexVal(TrailerOf(sentence)[1]) + HexVal(TrailerOf(sentence)[2])
                = ParitySum(BodyOf(sentence), 0)

\* C8 witness: the sentence of 56.05617 N, 18.9996 E at 01:52:00, checksum 6D.
C8_Witness ==
    /\ Returned
    /\ sentence = <<"$", "R", "A", "T", "L", "L", ",", "0", "1", ",",
                    "5", "6", "0", "3", ".", "3", "7", "0", ",", "N", ",",
                    "0", "1", "8", "5", "9", ".", "9", "7", "6", ",", "E", ",",
                    "R", "O", "V", ",", "0", "1", "5", "2", "0", "0", ",", "T",
                    "*", "6", "D">>

\* C9: the latitude field read back as degrees + minutes/60, signed by its
\* hemisphere letter, is within 1/1000 of a minute of the input; likewise the
\* longitude field.
C9_FieldRoundTrip ==
    Returned
        => /\ FieldNear(LatField, tllArgs.lat) /\ SignAgrees(LatLetter, tllArgs.lat)
           /\ FieldNear(LngField, tllArgs.lng) /\ SignAgrees(LngLetter, tllArgs.lng)

\* C10: the latitude letter is N for latitude >= 0 and S below 0, the longitude
\* letter E for longitude >= 0 and W below 0, and the digits of both fields are
\* those of the absolute values.
C10_Hemispheres ==
    Returned
        => /\ LatLetter = (IF tllArgs.lat >= 0 THEN <<"N">> ELSE <<"S">>)
           /\ LngLetter = (IF tllArgs.lng >= 0 THEN <<"E">> ELSE <<"W">>)
           /\ LatField = lat_format(abs(tllArgs.lat))
           /\ LngField = lng_format(abs(tllArgs.lng))

\* C10 witness: a position south of the equator and west of Greenwich.
C10_Witness ==
    /\ Returned
    /\ tllArgs.lat < 0 /\ tllArgs.lng < 0
    /\ LatLetter = <<"S">> /\ LngLetter = <<"W">>
    /\ LatField = <<"0", "3", "5", "9", ".", "9", "9", "9">>

\* the two decimal digits of n < 100
TwoDigits(n) == <<AsciiRow[17 + (n \div 10)], AsciiRow[17 + (n % 10)]>>

InLoop == pc \in {"fetch", "requests_get", "gen_tll", "send_udp", "ser_write", "sleep"}

LastFetch == fetchLog[Len(fetchLog)]

\* the cycle's fetch has returned and its `if pos:` block, if entered, is over
CycleOver == fetchLog # <<>> /\ pc \in {"fetch", "sleep", "crashed"}

\* C12: in a cycle whose fetch returned a position each configured sink receives
\* the cycle's sentence exactly once (a sink is excused only by a failure of its
\* own write) and an unconfigured sink nothing; the datagram is the sentence as
\* it is, the serial payload the sentence and one newline; in a cycle whose
\* fetch returned Unavailable neither sink receives anything.
C12_EachSinkOnce ==
    /\ (CycleOver /\ LastFetch = "pos" /\ numeric(pos) /\ pc # "fetch")
         => /\ (sock # "None" /\ udpTry # "raised") => udpTry = "ok"
            /\ (ser # "None" /\ serTry # "raised") => serTry = "ok"
    /\ udpTry = "ok" => sock # "None" /\ udpOut.last = sentence
    /\ serTry = "ok" => ser # "None" /\ serOut.last = sentence \o <<"\n">>
    /\ (CycleOver /\ LastFetch \in Unavailable) => udpTry = "no" /\ serTry = "no"

\* C13: every fetch attempt comes to an end, with a position or Unavailable,
\* also when the source never answers, so the loop never stays in a fetch.
C13_FetchCompletes == (pc = "requests_get") ~> (pc # "requests_get")

\* C14: each configured transport is open, and only those, all the while the
\* loop runs, and none is left open once the process has left the loop.
C14_TransportLifecycle ==
    /\ InLoop => /\ ser = (IF args.serial # "" THEN "open" ELSE "None")
                 /\ sock = (IF args.ip # "" THEN "open" ELSE "None")
    /\ pc \in {"crashed", "exited"} => ser # "open" /\ sock # "open"


\* ---------------------------------------------------------------------------
\* StabOff.py: the script, the vehicle and the telemetry link between them
\* ---------------------------------------------------------------------------

MaxHeartbeats == 2   \* HEARTBEAT messages the vehicle sends in a run
MaxOther == 1        \* PARAM_VALUE messages the vehicle sends unasked in a run
MaxLoss == 1         \* messages the link loses in a run

\* the parameters of the four request/set blocks, in the order of the script
Blocks == 1..4

\* the name in the k-th param_request_read_send
read_id(k) ==
    CASE k = 1 -> "ATC_RAT_PIT_I"
      [] k = 2 -> "ATC_RAT_PIT_P"
      [] k = 3 -> "ATC_RAT_RLL_I"
      [] k = 4 -> "ATC_RAT_RLL_P"

\* the table of names with the last block's name copied from the third
set_id_copied(k) ==
    CASE k = 1 -> "ATC_RAT_PIT_I"
      [] k = 2 -> "ATC_RAT_PIT_P"
      [] k = 3 -> "ATC_RAT_RLL_I"
      [] k = 4 -> "ATC_RAT_RLL_I"

\* the name in the k-th param_set_send
set_id(k) ==
    CASE k = 1 -> "ATC_RAT_PIT_I"
      [] k = 2 -> "ATC_RAT_PIT_P"
      [] k = 3 -> "ATC_RAT_RLL_I"
      [] k = 4 -> "ATC_RAT_RLL_P"

\* the value in every param_set_send
set_value == 0

\* the vehicle's parameters: the four of the script and one of the heading controller
ParamIds == {"ATC_RAT_PIT_I", "ATC_RAT_PIT_P", "ATC_RAT_RLL_I", "ATC_RAT_RLL_P", "ATC_RAT_YAW_P"}

Msg(type, id, value) == [type |-> type, param_id |-> id, param_value |-> value]

HEARTBEAT == Msg("HEARTBEAT", "", 0)

\* a receive that takes whatever message comes next
matches_any(m, type) == TRUE

\* recv_match(type=...): the message is of the type asked for (no other field is looked at)
matches(m, type) == m.type = type

Sent(m) == [ev |-> "sent", msg |-> m]

Got(m) == [ev |-> "recv", msg |-> m]

\* the state in which the script is started: the vehicle runs with non-zero gains,
\* nothing is on the link
InitStab ==
    /\ pc = "not_run"
    /\ py = 3
    /\ args = [ip |-> "", serial |-> ""]
    /\ ser = "None"
    /\ sock = "None"
    /\ pos = None
    /\ resp = NoResponse
    /\ fetchLog = <<>>
    /\ tllArgs = NoCall
    /\ sentence = <<>>
    /\ udpTry = "no"
    /\ serTry = "no"
    /\ udpOut = NoOutput
    /\ serOut = NoOutput
    /\ sinceFetch = 0
    /\ gap = -1
    /\ spc = [at |-> "mavlink_connection", k |-> 0]
    /\ link = <<>>
    /\ uplink = <<>>
    /\ vparams = [p \in ParamIds |-> 1]
    /\ slog = <<>>
    /\ env = [hb |-> 0, other |-> 0, loss |-> 0]

\* master = mavutil.mavlink_connection('udp:0.0.0.0:14555')
MavlinkConnection ==
    /\ spc.at = "mavlink_connection"
    /\ spc' = [at |-> "wait_heartbeat", k |-> 0]
    /\ UNCHANGED <<link, uplink, vparams, slog, env>>
    /\ UNCHANGED mainVars

\* master.wait_heartbeat(): one message taken off the link; any other message
\* than a HEARTBEAT is dropped and the wait goes on
WaitHeartbeat ==
    /\ spc.at = "wait_heartbeat"
    /\ link # <<>>
    /\ link' = Tail(link)
    /\ IF matches(Head(link), "HEARTBEAT")
         THEN /\ spc' = [at |-> "param_request_read_send", k |-> 1]
              /\ slog' = Append(slog, Got(Head(link)))
         ELSE UNCHANGED <<spc, slog>>
    /\ UNCHANGED <<uplink, vparams, env>>
    /\ UNCHANGED mainVars

\* master.mav.param_request_read_send(target_system, target_component, name, -1)
ParamRequestReadSend ==
    /\ spc.at = "param_request_read_send"
    /\ uplink' = Append(uplink, Msg("PARAM_REQUEST_READ", read_id(spc.k), 0))
    /\ slog' = Append(slog, Sent(Msg("PARAM_REQUEST_READ", read_id(spc.k), 0)))
    /\ spc' = [spc EXCEPT !.at = "recv_match_old"]
    /\ UNCHANGED <<link, vparams, env>>
    /\ UNCHANGED mainVars

\* where the script goes on after a recv_match has returned
after_recv_match(at, k) ==
    IF at = "recv_match_old" THEN [at |-> "param_set_send", k |-> k]
    ELSE IF k < 4 THEN [at |-> "param_request_read_send", k |-> k + 1]
    ELSE [at |-> "time_sleep", k |-> k]

\* message = master.recv_match(type='PARAM_VALUE', blocking=True).to_dict(); print:
\* one message taken off the link; it blocks while the link is empty, drops a
\* message of another type and returns the first PARAM_VALUE
RecvMatch ==
    /\ spc.at \in {"recv_match_old", "recv_match_ack"}
    /\ link # <<>>
    /\ link' = Tail(link)
    /\ IF matches(Head(link), "PARAM_VALUE")
         THEN /\ spc' = after_recv_match(spc.at, spc.k)
              /\ slog' = Append(slog, Got(Head(link)))
         ELSE UNCHANGED <<spc, slog>>
    /\ UNCHANGED <<uplink, vparams, env>>
    /\ UNCHANGED mainVars

\* master.mav.param_set_send(target_system, target_component, name, 0, MAV_PARAM_TYPE_REAL32)
ParamSetSend ==
    /\ spc.at = "param_set_send"
    /\ uplink' = Append(uplink, Msg("PARAM_SET", set_id(spc.k), set_value))
    /\ slog' = Append(slog, Sent(Msg("PARAM_SET", set_id(spc.k), set_value)))
    /\ spc' = [spc EXCEPT !.at = "recv_match_ack"]
    /\ UNCHANGED <<link, vparams, env>>
    /\ UNCHANGED mainVars

\* time.sleep(1)
TimeSleep ==
    /\ spc.at = "time_sleep"
    /\ spc' = [spc EXCEPT !.at = "exit"]
    /\ UNCHANGED <<link, uplink, vparams, slog, env>>
    /\ UNCHANGED mainVars

\* exit()
Exit ==
    /\ spc.at = "exit"
    /\ spc' = [spc EXCEPT !.at = "exited"]
    /\ UNCHANGED <<link, uplink, vparams, slog, env>>
    /\ UNCHANGED mainVars

\* the vehicle sends a HEARTBEAT
VehicleHeartbeat ==
    /\ env.hb < MaxHeartbeats
    /\ env' = [env EXCEPT !.hb = @ + 1]
    /\ link' = Append(link, HEARTBEAT)
    /\ UNCHANGED <<spc, uplink, vparams, slog>>
    /\ UNCHANGED mainVars

\* the vehicle takes the next message of the script: a PARAM_REQUEST_READ is
\* answered with the parameter's value, a PARAM_SET is applied and acknowledged
\* with the new value
VehicleReply ==
    /\ uplink # <<>>
    /\ uplink' = Tail(uplink)
    /\ LET m == Head(uplink)
       IN IF m.type = "PARAM_SET"
            THEN /\ vparams' = [vparams EXCEPT ![m.param_id] = m.param_value]
                 /\ link' = Append(link, Msg("PARAM_VALUE", m.param_id, m.param_value))
            ELSE /\ link' = Append(link, Msg("PARAM_VALUE", m.param_id, vparams[m.param_id]))
                 /\ UNCHANGED vparams
    /\ UNCHANGED <<spc, slog, env>>
    /\ UNCHANGED mainVars

\* the vehicle sends a PARAM_VALUE the script did not ask for: a reply or an
\* acknowledgment to another ground station, or a second copy of one
OtherParamValue ==
    /\ spc.at # "mavlink_connection"
    /\ env.other < MaxOther
    /\ env' = [env EXCEPT !.other = @ + 1]
    /\ \E p \in ParamIds : link' = Append(link, Msg("PARAM_VALUE", p, vparams[p]))
    /\ UNCHANGED <<spc, uplink, vparams, slog>>
    /\ UNCHANGED mainVars

\* the link loses the next message of one direction
Lose ==
    /\ env.loss < MaxLoss
    /\ env' = [env EXCEPT !.loss = @ + 1]
    /\ \/ link # <<>> /\ link' = Tail(link) /\ UNCHANGED uplink
       \/ uplink # <<>> /\ uplink' = Tail(uplink) /\ UNCHANGED link
    /\ UNCHANGED <<spc, vparams, slog>>
    /\ UNCHANGED mainVars

ScriptStep ==
    \/ MavlinkConnection
    \/ WaitHeartbeat
    \/ ParamRequestReadSend
    \/ RecvMatch
    \/ ParamSetSend
    \/ TimeSleep
    \/ Exit

NextStab ==
    \/ ScriptStep
    \/ VehicleHeartbeat
    \/ VehicleReply
    \/ OtherParamValue
    \/ Lose

SpecStab == InitStab /\ [][NextStab]_vars

\* the script runs whenever it can, and the vehicle keeps sending heartbeats and
\* answers every message that reaches it
FairSpecStab ==
    /\ InitStab /\ [][NextStab]_vars
    /\ WF_vars(ScriptStep)
    /\ WF_vars(VehicleHeartbeat)
    /\ WF_vars(VehicleReply)

\* ---------------------------------------------------------------------------
\* StabOff.py: properties
\* ---------------------------------------------------------------------------

Stabilisation == <<"ATC_RAT_PIT_I", "ATC_RAT_PIT_P", "ATC_RAT_RLL_I", "ATC_RAT_RLL_P">>

\* the i-th thing the script does on the link is what its place in the order asks for
InOrder(e, i) ==
    IF i = 1 THEN e.ev = "recv" /\ e.msg.type = "HEARTBEAT"
    ELSE LET k == ((i - 2) \div 4) + 1
             step == (i - 2) % 4
         IN CASE step = 0 -> e.ev = "sent" /\ e.msg.type = "PARAM_REQUEST_READ"
                                /\ e.msg.param_id = Stabilisation[k]
              [] step = 1 -> e.ev = "recv" /\ e.msg.type = "PARAM_VALUE"
              [] step = 2 -> e.ev = "sent" /\ e.msg.type = "PARAM_SET"
                                /\ e.msg.param_id = Stabilisation[k]
              [] step = 3 -> e.ev = "recv" /\ e.msg.type = "PARAM_VALUE"

\* C15: the script sends nothing before it has received a heartbeat and then
\* handles ATC_RAT_PIT_I, ATC_RAT_PIT_P, ATC_RAT_RLL_I, ATC_RAT_RLL_P in this
\* order, each with read request, received PARAM_VALUE, PARAM_SET, received
\* PARAM_VALUE: no send happens before the receive that precedes it in this order.
C15_StrictOrder ==
    /\ Len(slog) <= 1 + 4 * Len(Stabilisation)
    /\ \A i \in 1..Len(slog) : InOrder(slog[i], i)
    /\ \A i \in 1..Len(uplink) : \E j \in 1..Len(slog) : slog[j] = Sent(uplink[i])

\* C15 witness: the script has exited after the heartbeat and all sixteen steps.
C15_Witness == spc.at = "exited" /\ Len(slog) = 17 /\ env.other = 1 /\ env.loss = 0

SetsSent == {i \in 1..Len(slog) : slog[i].ev = "sent" /\ slog[i].msg.type = "PARAM_SET"}

\* C16: at its exit the script has sent exactly four PARAM_SET, one for each
\* of the four pitch and roll rate gains, each with value 0, and none for any
\* other parameter; the heading controller's parameter keeps its value.
C16_FourSetsToZero ==
    /\ spc.at \in {"exit", "exited"} =>
         /\ Cardinality(SetsSent) = 4
         /\ \A k \in 1..4 : \E i \in SetsSent : slog[i].msg.param_id = Stabilisation[k]
    /\ \A i \in SetsSent :
         /\ slog[i].msg.param_value = 0
         /\ \E k \in 1..4 : slog[i].msg.param_id = Stabilisation[k]
    /\ spc.at # "not_run" => vparams["ATC_RAT_YAW_P"] = 1

\* C16 witness: the script has exited and the vehicle has applied all four sets.
C16_Witness ==
    /\ spc.at = "exited"
    /\ \A k \in 1..4 : vparams[Stabilisation[k]] = 0
    /\ vparams["ATC_RAT_YAW_P"] = 1

\* PARAM_SET messages the script has sent for the k-th parameter
SetsOf(k) == {i \in SetsSent : slog[i].msg.param_id = Stabilisation[k]}

\* C17: a PARAM_SET that no PARAM_VALUE follows is sent again: the script does
\* not stay forever in the wait after a PARAM_SET without sending that
\* PARAM_SET a second time.
C17_ResendOnTimeout ==
    \A k \in 1..4 :
        (spc.at = "recv_match_ack" /\ spc.k = k)
          ~> (~(spc.at = "recv_match_ack" /\ spc.k = k) \/ Cardinality(SetsOf(k)) > 1)

\* C18: the PARAM_VALUE accepted after a read request or a PARAM_SET of a
\* parameter carries that parameter's name, and after a PARAM_SET the value 0,
\* whatever other PARAM_VALUE messages the vehicle sends.
C18_AcceptsOwnReply ==
    \A i \in 2..Len(slog) :
        (slog[i].ev = "recv" /\ slog[i - 1].ev = "sent") =>
            /\ slog[i].msg.param_id = slog[i - 1].msg.param_id
            /\ slog[i - 1].msg.type = "PARAM_SET" => slog[i].msg.param_value = 0

====
